---------------------------- MODULE Spec2Model ----------------------------
(***************************************************************************)
(* A model of raytracer.js: the vector helpers, the ray/sphere             *)
(* intersection, the lighting evaluator, the recursive tracer and the      *)
(* render loop.                                                            *)
(*                                                                         *)
(* JavaScript Numbers are IEEE doubles.  They are modelled here as a       *)
(* finite-precision, saturating number format: a finite Number is an       *)
(* integer n standing for n / Unit, every operation rounds its exact       *)
(* result to the nearest representable value, a result beyond MaxNum       *)
(* overflows to Infinity, and NaN is produced and propagated as in IEEE    *)
(* arithmetic (every comparison with NaN is false).  The sign of zero is   *)
(* not modelled.                                                           *)
(*                                                                         *)
(* JavaScript evaluates the arguments of a call once, before the call.     *)
(* Every operator below does the same: its body is a local function that   *)
(* is applied to the arguments.                                            *)
(***************************************************************************)
EXTENDS Integers, Sequences, FiniteSets, TLC

\* ------------------------------------------------------------------------
\* Numbers
\* ------------------------------------------------------------------------

\* number of fractional binary digits of a finite Number
FracBits == 9

Unit == 2 ^ FracBits

\* largest finite magnitude (in units of 1 / Unit)
MaxNum == (2 ^ 30) \div Unit

Infinity == MaxNum + 1

NegInfinity == -(MaxNum + 1)

NaN == MaxNum + 2

Number == Int

Vector == Seq(Int)

IsFinite(a) == [x \in Int |-> x >= -MaxNum /\ x <= MaxNum][a]

Abs(n) == [x \in Int |-> IF x < 0 THEN -x ELSE x][n]

Sign(n) == [x \in Int |-> IF x < 0 THEN -1 ELSE 1][n]

\* the integer nearest to n / d, for n >= 0 and d > 0
Round(n, d) == [x \in Int, y \in Int |-> (x + y \div 2) \div y][n, d]

\* overflow of a finite result
Saturate(n) ==
  [x \in Int |->
     IF x > MaxNum THEN Infinity ELSE IF x < -MaxNum THEN NegInfinity ELSE x][n]

\* the Number of the integer literal n
Num(n) == n * Unit

\* the Number of the decimal literal n / d (d > 0), rounded to nearest
Lit(n, d) == Sign(n) * Round(Abs(n) * Unit, d)

\* Math.floor(a)
NumFloor(a) == [x \in Int |-> IF IsFinite(x) THEN (x \div Unit) * Unit ELSE x][a]

\* unary minus
NumNeg(a) == [x \in Int |-> IF x = NaN THEN NaN ELSE -x][a]

\* a + b
NumAdd(a, b) ==
  [x \in Int, y \in Int |->
     IF x = NaN \/ y = NaN THEN NaN
     ELSE IF x = Infinity THEN (IF y = NegInfinity THEN NaN ELSE Infinity)
     ELSE IF x = NegInfinity THEN (IF y = Infinity THEN NaN ELSE NegInfinity)
     ELSE IF y = Infinity \/ y = NegInfinity THEN y
     ELSE Saturate(x + y)][a, b]

\* a - b
NumSub(a, b) == NumAdd(a, NumNeg(b))

\* the product of two finite magnitudes, with the sign sgn
MulAbs(a, b, sgn) ==
  [x \in Int, y \in Int, xh \in Int, xl \in Int |->
     IF xh > 0 /\ y > (2 * MaxNum) \div xh THEN sgn * Infinity
     ELSE sgn * Saturate(xh * y + Round(xl * y, Unit))][a, b, a \div Unit, a % Unit]

\* a * b
NumMul(a, b) ==
  [x \in Int, y \in Int |->
     IF x = NaN \/ y = NaN THEN NaN
     ELSE IF ~IsFinite(x) \/ ~IsFinite(y)
          THEN (IF x = 0 \/ y = 0 THEN NaN ELSE Sign(x) * Sign(y) * Infinity)
     ELSE MulAbs(Abs(x), Abs(y), Sign(x) * Sign(y))][a, b]

\* a / b
NumDiv(a, b) ==
  [x \in Int, y \in Int |->
     IF x = NaN \/ y = NaN THEN NaN
     ELSE IF ~IsFinite(x)
          THEN (IF ~IsFinite(y) THEN NaN ELSE Sign(x) * Sign(y) * Infinity)
     ELSE IF ~IsFinite(y) THEN 0
     ELSE IF y = 0 THEN (IF x = 0 THEN NaN ELSE Sign(x) * Infinity)
     ELSE Sign(x) * Sign(y) * Saturate(Round(Abs(x) * Unit, Abs(y)))][a, b]

RECURSIVE FloorSqrt(_, _, _)
\* the largest s in lo..hi with s * s <= n
FloorSqrt(n, lo, hi) ==
  [x \in Int, l \in Int, h \in Int, mid \in Int |->
     IF l >= h THEN l
     ELSE IF mid * mid <= x THEN FloorSqrt(x, mid, h)
     ELSE FloorSqrt(x, l, mid - 1)][n, lo, hi, (lo + hi + 1) \div 2]

\* Math.sqrt(a)
NumSqrt(a) ==
  [x \in Int |->
     IF x = NaN \/ x < 0 THEN NaN
     ELSE IF x = Infinity THEN Infinity
     ELSE [n \in Int, s \in Int |-> IF n - s * s > s THEN s + 1 ELSE s]
            [x * Unit, FloorSqrt(x * Unit, 0, 2 ^ 15)]][a]

RECURSIVE PowInt(_, _)
\* x multiplied n times
PowInt(x, n) ==
  [b \in Int, k \in Int |->
     IF k <= 0 THEN Num(1) ELSE NumMul(b, PowInt(b, k - 1))][x, n]

\* Math.pow(x, s) for an exponent s that is a natural number
NumPow(x, s) == PowInt(x, s \div Unit)

\* a < b
NumLt(a, b) == [x \in Int, y \in Int |-> x # NaN /\ y # NaN /\ x < y][a, b]

\* a > b
NumGt(a, b) == [x \in Int, y \in Int |-> x # NaN /\ y # NaN /\ x > y][a, b]

\* a <= b
NumLe(a, b) == [x \in Int, y \in Int |-> x # NaN /\ y # NaN /\ x <= y][a, b]

\* ------------------------------------------------------------------------
\* Vector helpers
\* ------------------------------------------------------------------------

add(V1, V2) ==
  [a \in Vector, b \in Vector |-> [i \in DOMAIN a |-> NumAdd(a[i], b[i])]][V1, V2]

RECURSIVE reduce(_, _, _)
\* V.reduce((acc, val) => acc + val, acc) from element i on
reduce(V, i, acc) ==
  [a \in Vector, k \in Int, s \in Int |->
     IF k > Len(a) THEN s ELSE reduce(a, k + 1, NumAdd(s, a[k]))][V, i, acc]

sum(V) == reduce(V, 1, 0)

dot(V1, V2) ==
  [a \in Vector, b \in Vector |-> sum([i \in DOMAIN a |-> NumMul(a[i], b[i])])][V1, V2]

len(V) == [a \in Vector |-> NumSqrt(dot(a, a))][V]

scale(s, V) ==
  [k \in Int, a \in Vector |-> [i \in DOMAIN a |-> NumMul(a[i], k)]][s, V]

sub(V1, V2) ==
  [a \in Vector, b \in Vector |-> [i \in DOMAIN a |-> NumSub(a[i], b[i])]][V1, V2]

RECURSIVE mulRow(_, _, _, _)
\* the inner loop of mul: res[i] += V[j] * M[i][j] from column j on
mulRow(Mi, V, j, acc) ==
  [m \in Vector, a \in Vector, k \in Int, s \in Int |->
     IF k > 3 THEN s ELSE mulRow(m, a, k + 1, NumAdd(s, NumMul(a[k], m[k])))]
    [Mi, V, j, acc]

mul(M, V) ==
  [m \in Seq(Vector), a \in Vector |-> [i \in 1..3 |-> mulRow(m[i], a, 1, 0)]][M, V]

reflectRay(R, N) ==
  [r \in Vector, n \in Vector |-> sub(scale(NumMul(Num(2), dot(n, r)), n), r)][R, N]

\* ------------------------------------------------------------------------
\* State
\* ------------------------------------------------------------------------

VARIABLES
  scene,            \* [spheres, lights]: the module-level scene
  camera,           \* [position, rotation]
  backgroundColor,  \* the module-level background color array
  canvas,           \* [width, height] of the output raster
  pc,               \* position of the running program
  call,             \* arguments of the traceRay invocation about to run
  stack,            \* suspended traceRay invocations, innermost first
  ret,              \* [alias, val]: the array the last traceRay returned
  top,              \* arguments of the outermost traceRay call
  calls,            \* traceRay invocations since the outermost call
  lightings,        \* computeLighting invocations since the outermost call
  hits,             \* the <<sphere, t>> each invocation found, in call order
  px,               \* render's loop variables [x, y]
  pixels,           \* the putPixel calls made so far, in order
  args,             \* arguments of the helper applied on its own
  out               \* its result

vars == <<scene, camera, backgroundColor, canvas, pc, call, stack, ret, top,
          calls, lightings, hits, px, pixels, args, out>>

\* the literal 0.001 of the shadow and reflection rays
Epsilon == Lit(1, 1000)

SphereT ==
  [center : Vector, radius : Int, color : Vector, specular : Int, reflective : Int]

LightT ==
  [type : {"ambient"}, intensity : Int]
    \cup [type : {"point"}, intensity : Int, position : Vector]
    \cup [type : {"directional"}, intensity : Int, direction : Vector]

\* ------------------------------------------------------------------------
\* Intersection
\* ------------------------------------------------------------------------

\* intersectRaySphere dividing by k1 instead of 2 * k1
intersectRaySphereHalf(O, D, sphere) ==
  [d \in Vector, OC \in Vector, radius \in Int |->
     [k1 \in Int, k2 \in Int, k3 \in Int |->
        [discriminant \in Int, denominator \in Int |->
           IF NumLt(discriminant, 0) THEN <<Infinity, Infinity>>
           ELSE [root \in Int |->
                   << NumDiv(NumAdd(NumNeg(k2), root), denominator),
                      NumDiv(NumSub(NumNeg(k2), root), denominator) >>]
                  [NumSqrt(discriminant)]]
          [NumSub(NumMul(k2, k2), NumMul(NumMul(Num(4), k1), k3)), k1]]
       [dot(d, d), NumMul(Num(2), dot(OC, d)),
        NumSub(dot(OC, OC), NumMul(radius, radius))]]
    [D, sub(O, sphere.center), sphere.radius]

\* the innermost function is the body from line 205 on, the one around it
\* binds k1, k2, k3 and the outermost binds OC
intersectRaySphere(O, D, sphere) ==
  [d \in Vector, OC \in Vector, radius \in Int |->
     [k1 \in Int, k2 \in Int, k3 \in Int |->
        [discriminant \in Int, denominator \in Int |->
           IF NumLt(discriminant, 0) THEN <<Infinity, Infinity>>
           ELSE [root \in Int |->
                   << NumDiv(NumAdd(NumNeg(k2), root), denominator),
                      NumDiv(NumSub(NumNeg(k2), root), denominator) >>]
                  [NumSqrt(discriminant)]]
          [NumSub(NumMul(k2, k2), NumMul(NumMul(Num(4), k1), k3)), NumMul(Num(2), k1)]]
       [dot(d, d), NumMul(Num(2), dot(OC, d)),
        NumSub(dot(OC, OC), NumMul(radius, radius))]]
    [D, sub(O, sphere.center), sphere.radius]

\* closer with <= in place of the last <: a later sphere wins a tie
closerOnTie(t, tMin, tMax, i, closest) ==
  [t1 \in Int, lo \in Int, hi \in Int, c \in Vector |->
     IF NumGt(t1, lo) /\ NumLt(t1, hi) /\ NumLe(t1, c[2]) THEN <<i, t1>> ELSE c]
    [t, tMin, tMax, closest]

\* closer without the test against tMax
closerUnbounded(t, tMin, tMax, i, closest) ==
  [t1 \in Int, lo \in Int, hi \in Int, c \in Vector |->
     IF NumGt(t1, lo) /\ NumLt(t1, c[2]) THEN <<i, t1>> ELSE c]
    [t, tMin, tMax, closest]

\* closer keeping the largest root instead of the smallest
closerFarthest(t, tMin, tMax, i, closest) ==
  [t1 \in Int, lo \in Int, hi \in Int, c \in Vector |->
     IF NumGt(t1, lo) /\ NumLt(t1, hi) /\ (c[1] = 0 \/ NumGt(t1, c[2]))
     THEN <<i, t1>> ELSE c]
    [t, tMin, tMax, closest]

\* the first if of the loop body of closestIntersection: the new
\* <<closestSphere, closestT>> for the root t of sphere number i
closer(t, tMin, tMax, i, closest) ==
  [t1 \in Int, lo \in Int, hi \in Int, c \in Vector |->
     IF NumGt(t1, lo) /\ NumLt(t1, hi) /\ NumLt(t1, c[2]) THEN <<i, t1>> ELSE c]
    [t, tMin, tMax, closest]

RECURSIVE closestLoop(_, _, _, _, _, _)
\* the loop of closestIntersection from sphere number i on; a sphere is
\* named by its position in scene.spheres and null is 0
closestLoop(O, D, tMin, tMax, i, closest) ==
  [o \in Vector, d \in Vector, lo \in Int, hi \in Int, k \in Int, c \in Vector |->
     IF k > Len(scene.spheres) THEN c
     ELSE [t \in Vector |->
             closestLoop(o, d, lo, hi, k + 1,
                         closer(t[2], lo, hi, k, closer(t[1], lo, hi, k, c)))]
            [intersectRaySphere(o, d, scene.spheres[k])]]
    [O, D, tMin, tMax, i, closest]

closestIntersection(O, D, tMin, tMax) ==
  closestLoop(O, D, tMin, tMax, 1, <<0, Infinity>>)

\* ------------------------------------------------------------------------
\* Lighting
\* ------------------------------------------------------------------------

\* the diffuse term (lines 149-152) added to the intensity i
diffuseTerm(intensity, N, L, i) ==
  [n \in Vector, l \in Vector, j \in Int, nDotL \in Int |->
     IF NumGt(nDotL, 0)
     THEN NumAdd(j, NumDiv(NumMul(intensity, nDotL), NumMul(len(n), len(l))))
     ELSE j][N, L, i, dot(N, L)]

\* the specular term (lines 167-173) added to the intensity i
specularTerm(intensity, N, L, V, s, i) ==
  [v \in Vector, e \in Int, j \in Int, R \in Vector |->
     IF e # Num(-1)
     THEN [rDotV \in Int |->
             IF NumGt(rDotV, 0)
             THEN NumAdd(j, NumMul(intensity,
                                   NumPow(NumDiv(rDotV, NumMul(len(R), len(v))), e)))
             ELSE j][dot(R, v)]
     ELSE j][V, s, i, reflectRay(L, N)]

\* lightTerm with the shadow test placed after the diffuse term
lightTermLeak(light, P, N, V, s, i) ==
  [l \in LightT, p \in Vector, n \in Vector, v \in Vector, e \in Int, j \in Int,
   L \in Vector, tMax \in Int |->
     IF closestIntersection(p, L, Epsilon, tMax)[1] # 0
     THEN diffuseTerm(l.intensity, n, L, j)
     ELSE specularTerm(l.intensity, n, L, v, e, diffuseTerm(l.intensity, n, L, j))]
    [light, P, N, V, s, i,
     IF light.type = "point" THEN sub(light.position, P) ELSE light.direction,
     IF light.type = "point" THEN Num(1) ELSE Infinity]

\* what one point or directional light adds to the intensity i
lightTerm(light, P, N, V, s, i) ==
  [l \in LightT, p \in Vector, n \in Vector, v \in Vector, e \in Int, j \in Int,
   L \in Vector, tMax \in Int |->
     IF closestIntersection(p, L, Epsilon, tMax)[1] # 0 THEN j
     ELSE specularTerm(l.intensity, n, L, v, e, diffuseTerm(l.intensity, n, L, j))]
    [light, P, N, V, s, i,
     IF light.type = "point" THEN sub(light.position, P) ELSE light.direction,
     IF light.type = "point" THEN Num(1) ELSE Infinity]

RECURSIVE lightLoop(_, _, _, _, _, _, _)
\* the loop of computeLighting over the light list, from light number k on
lightLoop(lights, P, N, V, s, k, i) ==
  [ls \in Seq(LightT), p \in Vector, n \in Vector, v \in Vector, e \in Int,
   m \in Int, j \in Int |->
     IF m > Len(ls) THEN j
     ELSE lightLoop(ls, p, n, v, e, m + 1,
                    IF ls[m].type = "ambient" THEN NumAdd(j, ls[m].intensity)
                    ELSE lightTerm(ls[m], p, n, v, e, j))]
    [lights, P, N, V, s, k, i]

\* computeLighting with its loop starting at the second light
computeLightingSkip(P, N, V, s) == lightLoop(scene.lights, P, N, V, s, 2, 0)

computeLighting(P, N, V, s) == lightLoop(scene.lights, P, N, V, s, 1, 0)

\* ------------------------------------------------------------------------
\* Tracing
\* ------------------------------------------------------------------------

\* lines 237-246 of traceRay for a hit <<sphere, t>>: the innermost function
\* has P, the unit normal N and V
shade(O, D, hit) ==
  [sphere \in SphereT, d \in Vector, P \in Vector |->
     [N \in Vector |->
        [n \in Vector, V \in Vector |->
           [ P |-> P, N |-> n, V |-> V,
             localColor |->
               scale(computeLighting(P, n, V, sphere.specular), sphere.color),
             r |-> sphere.reflective,
             R |-> reflectRay(V, n) ]]
          [scale(NumDiv(Num(1), len(N)), N), scale(Num(-1), d)]]
       [sub(P, sphere.center)]]
    [scene.spheres[hit[1]], D, add(O, scale(hit[2], D))]

\* blend with the two weights exchanged
blendSwapped(localColor, r, reflectedColor) ==
  [lc \in Vector, k \in Int, rc \in Vector |->
     add(scale(k, lc), scale(NumSub(Num(1), k), rc))][localColor, r, reflectedColor]

\* line 248 of traceRay
blend(localColor, r, reflectedColor) ==
  [lc \in Vector, k \in Int, rc \in Vector |->
     add(scale(NumSub(Num(1), k), lc), scale(k, rc))][localColor, r, reflectedColor]

\* bail with the recursion limit tested one level too late
bailLate(depth, r) == depth < 0 \/ NumLe(r, 0)

\* line 244 of traceRay: bail if the recursion limit is hit or the object
\* is not reflective
bail(depth, r) == depth <= 0 \/ NumLe(r, 0)

ShadeT ==
  [P : Vector, N : Vector, V : Vector, localColor : Vector, r : Int, R : Vector]

RECURSIVE traceRay(_, _, _, _, _)
\* traceRay as a function of its arguments
traceRay(O, D, tMin, tMax, depth) ==
  [o \in Vector, d \in Vector, dep \in Int, hit \in Vector |->
     IF hit[1] = 0 THEN backgroundColor
     ELSE [h \in ShadeT |->
             IF bail(dep, h.r) THEN h.localColor
             ELSE blend(h.localColor, h.r,
                        traceRay(h.P, h.R, Epsilon, Infinity, dep - 1))]
            [shade(o, d, hit)]]
    [O, D, depth, closestIntersection(O, D, tMin, tMax)]

\* ------------------------------------------------------------------------
\* traceRay, one invocation at a time
\* ------------------------------------------------------------------------

\* An invocation of traceRay runs up to its return, or up to its recursive
\* call, where it is suspended on the stack until the callee returns.
Enter ==
  /\ pc = "trace"
  /\ call # <<>>
  /\ \E c \in {call[1]} :
     \E hit \in {closestIntersection(c.O, c.D, c.tMin, c.tMax)} :
         /\ calls' = calls + 1
         /\ hits' = Append(hits, hit)
         /\ IF hit[1] = 0
            THEN /\ ret' = << [alias |-> TRUE, val |-> backgroundColor] >>
                 /\ call' = <<>>
                 /\ UNCHANGED <<stack, lightings>>
            ELSE \E h \in {shade(c.O, c.D, hit)} :
                 /\ lightings' = lightings + 1
                 /\ IF bail(c.depth, h.r)
                    THEN /\ ret' = << [alias |-> FALSE, val |-> h.localColor] >>
                         /\ call' = <<>>
                         /\ UNCHANGED stack
                    ELSE /\ stack' = << [depth |-> c.depth, localColor |-> h.localColor,
                                        r |-> h.r, P |-> h.P, R |-> h.R] >> \o stack
                         /\ call' = << [O |-> h.P, D |-> h.R, tMin |-> Epsilon,
                                        tMax |-> Infinity, depth |-> c.depth - 1] >>
                         /\ ret' = <<>>
  /\ UNCHANGED <<scene, camera, backgroundColor, canvas, pc, top, px, pixels, args, out>>

\* Resume with a scale that writes into its argument: the reflected color
\* may be the background color array itself
ResumeInPlace ==
  /\ pc = "trace"
  /\ call = <<>>
  /\ stack # <<>>
  /\ ret # <<>>
  /\ \E f \in {Head(stack)} :
       /\ ret' = << [alias |-> FALSE, val |-> blend(f.localColor, f.r, ret[1].val)] >>
       /\ backgroundColor' =
            IF ret[1].alias THEN scale(f.r, ret[1].val) ELSE backgroundColor
  /\ stack' = Tail(stack)
  /\ UNCHANGED <<scene, camera, canvas, pc, call, top, calls,
                 lightings, hits, px, pixels, args, out>>

\* The recursive call has returned: the suspended invocation blends and
\* returns (lines 247-248).
Resume ==
  /\ pc = "trace"
  /\ call = <<>>
  /\ stack # <<>>
  /\ ret # <<>>
  /\ \E f \in {Head(stack)} :
       ret' = << [alias |-> FALSE, val |-> blend(f.localColor, f.r, ret[1].val)] >>
  /\ stack' = Tail(stack)
  /\ UNCHANGED <<scene, camera, backgroundColor, canvas, pc, call, top, calls,
                 lightings, hits, px, pixels, args, out>>

\* the outermost call has returned
Returned == call = <<>> /\ stack = <<>> /\ ret # <<>>

\* ------------------------------------------------------------------------
\* Rendering
\* ------------------------------------------------------------------------

\* lines 3-7
viewport == [width |-> Num(1), height |-> Num(1), depth |-> Num(1)]

\* the default value of traceRay's parameter depth (line 234)
DefaultDepth == 3

canvasToViewport(x, y) ==
  << NumMul(x, NumDiv(viewport.width, canvas.width)),
     NumMul(y, NumDiv(viewport.height, canvas.height)),
     viewport.depth >>

\* the rectangle putPixel fills and its fill style, for viewport coordinates
\* (x, y) and a color
putPixel(x, y, color) ==
  [ x |-> x, y |-> y,
    cx |-> NumAdd(NumDiv(canvas.width, Num(2)), x),
    cy |-> NumSub(NumSub(NumDiv(canvas.height, Num(2)), y), Num(1)),
    color |-> color ]

\* lines 256-257
hw == NumFloor(NumDiv(canvas.width, Num(2)))

hh == NumFloor(NumDiv(canvas.height, Num(2)))

\* lines 260-261: the body of render's inner loop up to the call of traceRay
RenderPixel ==
  /\ pc = "render"
  /\ NumLt(px.x, hw)
  /\ NumLt(px.y, hh)
  /\ \E direction \in {mul(camera.rotation, canvasToViewport(px.x, px.y))} :
       /\ top' = [O |-> camera.position, D |-> direction, tMin |-> Num(1),
                  tMax |-> Infinity, depth |-> DefaultDepth]
       /\ call' = <<top'>>
  /\ pc' = "trace"
  /\ stack' = <<>>
  /\ ret' = <<>>
  /\ calls' = 0
  /\ lightings' = 0
  /\ hits' = <<>>
  /\ UNCHANGED <<scene, camera, backgroundColor, canvas, px, pixels, args, out>>

\* line 262 and the inner loop's y++
PutPixel ==
  /\ pc = "trace"
  /\ px # <<>>
  /\ call = <<>>
  /\ stack = <<>>
  /\ ret # <<>>
  /\ pixels' = Append(pixels, putPixel(px.x, px.y, ret[1].val))
  /\ px' = [px EXCEPT !.y = NumAdd(@, Num(1))]
  /\ pc' = "render"
  /\ UNCHANGED <<scene, camera, backgroundColor, canvas, call, stack, ret, top,
                 calls, lightings, hits, args, out>>

\* the inner loop ends: x++ and y starts over
NextColumn ==
  /\ pc = "render"
  /\ NumLt(px.x, hw)
  /\ ~NumLt(px.y, hh)
  /\ px' = [x |-> NumAdd(px.x, Num(1)), y |-> NumNeg(hh)]
  /\ UNCHANGED <<scene, camera, backgroundColor, canvas, pc, call, stack, ret, top,
                 calls, lightings, hits, pixels, args, out>>

\* render has returned
Rendered == pc = "render" /\ ~NumLt(px.x, hw)

\* ------------------------------------------------------------------------
\* The helpers applied on their own
\* ------------------------------------------------------------------------

ApplyIntersectRaySphere ==
  /\ pc = "intersectRaySphere"
  /\ out = <<>>
  /\ out' = <<intersectRaySphere(args.O, args.D, args.sphere)>>
  /\ UNCHANGED <<scene, camera, backgroundColor, canvas, pc, call, stack, ret, top,
                 calls, lightings, hits, px, pixels, args>>

ApplyClosestIntersection ==
  /\ pc = "closestIntersection"
  /\ out = <<>>
  /\ out' = <<closestIntersection(args.O, args.D, args.tMin, args.tMax)>>
  /\ UNCHANGED <<scene, camera, backgroundColor, canvas, pc, call, stack, ret, top,
                 calls, lightings, hits, px, pixels, args>>

ApplyComputeLighting ==
  /\ pc = "computeLighting"
  /\ out = <<>>
  /\ out' = <<computeLighting(args.P, args.N, args.V, args.s)>>
  /\ UNCHANGED <<scene, camera, backgroundColor, canvas, pc, call, stack, ret, top,
                 calls, lightings, hits, px, pixels, args>>

\* ------------------------------------------------------------------------
\* Scenes and rays the model is run on
\* ------------------------------------------------------------------------

\* deepest recursion limit passed to an outermost call
MaxDepth == 2

\* largest coordinate of a ray direction given to a helper
MaxCoord == 2

\* largest width and height of the output raster
MaxRaster == 3

V3(a, b, c) == <<Num(a), Num(b), Num(c)>>

Sphere(center, radius, color, specular, reflective) ==
  [center |-> center, radius |-> radius, color |-> color,
   specular |-> specular, reflective |-> reflective]

Ambient(intensity) == [type |-> "ambient", intensity |-> intensity]

Point(intensity, position) ==
  [type |-> "point", intensity |-> intensity, position |-> position]

Directional(intensity, direction) ==
  [type |-> "directional", intensity |-> intensity, direction |-> direction]

Reflectives == {0, Lit(1, 2), Num(1)}

Red(r) == Sphere(V3(0, 0, 5), Num(1), V3(255, 0, 0), Num(-1), r)

Blue(r) == Sphere(V3(0, 0, -3), Num(1), V3(0, 0, 255), Num(2), r)

Green(r) == Sphere(V3(0, 0, 5), Num(1), V3(0, 255, 0), Num(1), r)

Near(r) == Sphere(V3(0, 0, 2), Num(1), V3(255, 255, 0), Num(2), r)

SphereLists ==
  {<<>>}
    \cup {<<Red(r)>> : r \in Reflectives}
    \cup {<<Red(r), Blue(Num(1))>> : r \in Reflectives}
    \cup {<<Green(r), Red(0)>> : r \in Reflectives}
    \cup {<<Near(Lit(1, 2)), Red(0)>>}

\* the second list is the one of lines 19-34
LightLists ==
  { <<Ambient(Num(1))>>,
    <<Ambient(Lit(2, 10))>>,
    <<Ambient(Lit(2, 10)), Point(Lit(6, 10), V3(2, 1, 0)),
      Directional(Lit(2, 10), V3(1, 4, 4))>>,
    <<Point(Lit(1, 2), V3(0, 0, -6)), Ambient(Lit(1, 2)),
      Directional(Lit(1, 2), V3(0, 0, -1)), Point(Lit(6, 10), V3(2, 1, 0))>> }

Scenes == {[spheres |-> ss, lights |-> ls] : ss \in SphereLists, ls \in LightLists}

Backgrounds == {V3(0, 0, 0), V3(32, 64, 128)}

Rays ==
  { [O |-> V3(0, 0, 0), D |-> V3(0, 0, 1)],
    [O |-> V3(0, 0, 0), D |-> V3(0, 0, -1)],
    [O |-> V3(0, 0, 0), D |-> V3(0, 1, 4)],
    [O |-> V3(0, 0, 0), D |-> V3(0, 1, 0)],
    [O |-> V3(0, 0, 0), D |-> V3(0, 0, 0)] }

Intervals ==
  { <<Num(1), Infinity>>, <<Num(1), Num(3)>>, <<Epsilon, Infinity>> }

TopCalls ==
  { [O |-> ray.O, D |-> ray.D, tMin |-> iv[1], tMax |-> iv[2], depth |-> d] :
      ray \in Rays, iv \in Intervals, d \in 0..MaxDepth }

\* the first camera is the one of lines 9-16
Cameras ==
  { [position |-> V3(3, 0, 1),
     rotation |-> << <<Lit(7071, 10000), 0, Lit(-7071, 10000)>>,
                     <<0, Num(1), 0>>,
                     <<Lit(7071, 10000), 0, Lit(7071, 10000)>> >>],
    [position |-> V3(0, 0, 0),
     rotation |-> << <<Num(1), 0, 0>>, <<0, Num(1), 0>>, <<0, 0, Num(1)>> >>] }

Origins == {V3(0, 0, 0), V3(0, 1, 0), V3(0, 0, 4)}

Directions == {<<0, Num(b), Num(c)>> : b, c \in -MaxCoord..MaxCoord}

\* ------------------------------------------------------------------------
\* One outermost traceRay call
\* ------------------------------------------------------------------------

TraceInit ==
  /\ scene \in {sc \in Scenes : Len(sc.lights) <= 3}
  /\ backgroundColor \in Backgrounds
  /\ camera = <<>>
  /\ canvas = <<>>
  /\ pc = "trace"
  /\ top \in TopCalls
  /\ call = <<top>>
  /\ stack = <<>>
  /\ ret = <<>>
  /\ calls = 0
  /\ lightings = 0
  /\ hits = <<>>
  /\ px = <<>>
  /\ pixels = <<>>
  /\ args = <<>>
  /\ out = <<>>

TraceNext == Enter \/ Resume

SpecTrace == TraceInit /\ [][TraceNext]_vars

\* the calls in the scenes lit by the lights of lines 19-34, with the
\* background color of line 17
TraceInitLit ==
  /\ scene \in {sc \in Scenes : Len(sc.lights) = 3}
  /\ backgroundColor = V3(0, 0, 0)
  /\ camera = <<>>
  /\ canvas = <<>>
  /\ pc = "trace"
  /\ top \in TopCalls
  /\ call = <<top>>
  /\ stack = <<>>
  /\ ret = <<>>
  /\ calls = 0
  /\ lightings = 0
  /\ hits = <<>>
  /\ px = <<>>
  /\ pixels = <<>>
  /\ args = <<>>
  /\ out = <<>>

\* a call of traceRay runs on until it returns
SpecTraceFair == TraceInitLit /\ [][TraceNext]_vars /\ WF_vars(TraceNext)

\* ------------------------------------------------------------------------
\* One run of render
\* ------------------------------------------------------------------------

RenderInit ==
  /\ scene \in {sc \in Scenes : Len(sc.lights) = 3 /\ Len(sc.spheres) = 2}
  /\ backgroundColor \in Backgrounds
  /\ camera \in Cameras
  /\ canvas \in {[width |-> Num(w), height |-> Num(h)] : w, h \in 1..MaxRaster}
  /\ pc = "render"
  /\ px = [x |-> NumNeg(hw), y |-> NumNeg(hh)]
  /\ top = <<>>
  /\ call = <<>>
  /\ stack = <<>>
  /\ ret = <<>>
  /\ calls = 0
  /\ lightings = 0
  /\ hits = <<>>
  /\ pixels = <<>>
  /\ args = <<>>
  /\ out = <<>>

RenderNext == RenderPixel \/ Enter \/ Resume \/ PutPixel \/ NextColumn

SpecRender == RenderInit /\ [][RenderNext]_vars

\* ------------------------------------------------------------------------
\* One application of a helper
\* ------------------------------------------------------------------------

Spheres == {Red(0), Blue(Num(1)), Near(Lit(1, 2))}

Points == {V3(0, 0, 4), V3(0, 0, 1), V3(0, 0, -2)}

Normals == {V3(0, 0, -1), V3(0, 0, 1), V3(0, 1, 0)}

HelperInit ==
  /\ scene \in Scenes
  /\ backgroundColor = V3(0, 0, 0)
  /\ camera = <<>>
  /\ canvas = <<>>
  /\ \/ /\ pc = "intersectRaySphere"
        /\ scene.spheres = <<>> /\ scene.lights = <<Ambient(Num(1))>>
        /\ args \in [O : Origins, D : Directions, sphere : Spheres]
     \/ /\ pc = "closestIntersection"
        /\ scene.lights = <<Ambient(Num(1))>>
        /\ args \in {[O |-> o, D |-> d, tMin |-> iv[1], tMax |-> iv[2]] :
                       o \in Origins, d \in Directions, iv \in Intervals}
     \/ /\ pc = "computeLighting"
        /\ args \in [P : Points, N : Normals, V : Normals, s : {Num(-1), Num(2)}]
  /\ top = <<>>
  /\ call = <<>>
  /\ stack = <<>>
  /\ ret = <<>>
  /\ calls = 0
  /\ lightings = 0
  /\ hits = <<>>
  /\ px = <<>>
  /\ pixels = <<>>
  /\ out = <<>>

HelperNext ==
  ApplyIntersectRaySphere \/ ApplyClosestIntersection \/ ApplyComputeLighting

SpecHelper == HelperInit /\ [][HelperNext]_vars

\* ------------------------------------------------------------------------
\* Properties of traceRay
\* ------------------------------------------------------------------------

\* the sphere and the shading of the outermost call's hit
topSphere == scene.spheres[hits[1][1]]

topShade == shade(top.O, top.D, hits[1])

\* C1: a traceRay call with initial depth d >= 0 terminates after at most
\* d + 1 invocations: the invocations form one chain, each made with the
\* depth of its caller less one, an invocation that made a recursive call
\* had depth > 0, and once an invocation has returned no further one is made.
C1_Terminates ==
  /\ [](pc = "trace" =>
          /\ calls <= top.depth + 1
          /\ call # <<>> => call[1].depth = top.depth - calls
          /\ Len(stack) <= calls
          /\ \A k \in 1..Len(stack) : stack[k].depth > 0)
  /\ [][call = <<>> => call' = <<>>]_vars
  /\ <>Returned

\* the chain of reflections is cut by the depth limit: the last of
\* MaxDepth + 1 invocations has depth 0 and hits a reflective sphere
C1_Witness ==
  /\ Returned
  /\ top.depth = MaxDepth
  /\ calls = MaxDepth + 1
  /\ hits[calls][1] # 0
  /\ NumGt(scene.spheres[hits[calls][1]].reflective, 0)

\* no root of sphere k lies in the open interval (tMin, tMax) of call c
NoRoot(c, k) ==
  \A j \in 1..2 :
    ~(/\ NumGt(intersectRaySphere(c.O, c.D, scene.spheres[k])[j], c.tMin)
      /\ NumLt(intersectRaySphere(c.O, c.D, scene.spheres[k])[j], c.tMax))

\* C3: an invocation whose ray has no root in (tMin, tMax) for any sphere
\* returns the background color, whatever its depth, without a lighting
\* computation and without a recursive call.
C3_Background ==
  [][(call # <<>> /\ \A k \in 1..Len(scene.spheres) : NoRoot(call[1], k)) =>
       /\ call' = <<>>
       /\ stack' = stack
       /\ lightings' = lightings
       /\ ret' # <<>>
       /\ ret'[1].val = backgroundColor]_vars

\* the sphere's nearest root is 4 and tMax = 3 shuts it out
C3_Witness ==
  /\ Returned
  /\ Len(scene.spheres) = 1
  /\ top.tMax = Num(3)
  /\ intersectRaySphere(top.O, top.D, scene.spheres[1])[2] = Num(4)
  /\ backgroundColor = V3(32, 64, 128)
  /\ ret[1].val = backgroundColor
  /\ calls = 1
  /\ lightings = 0

\* localColor * (1 - r) + reflectedColor * r, component by component
Affine(localColor, r, reflectedColor) ==
  [k \in 1..3 |-> NumAdd(NumMul(localColor[k], NumSub(Num(1), r)),
                         NumMul(reflectedColor[k], r))]

AllFinite(V) == \A k \in 1..Len(V) : IsFinite(V[k])

\* C4 as stated: whenever a call hits a sphere of reflective coefficient r
\* the color returned is localColor * (1 - r) + reflectedColor * r, where
\* reflectedColor is the color traced along the mirror ray from the hit.
C4_AlwaysBlends ==
  (pc = "trace" /\ Returned /\ hits[1][1] # 0) =>
     ret[1].val =
       Affine(topShade.localColor, topShade.r,
              traceRay(topShade.P, topShade.R, Epsilon, Infinity, top.depth - 1))

\* C4: an invocation with depth > 0 that hits a sphere with r > 0 traces the
\* mirror ray from the hit point with depth - 1 and returns
\* localColor * (1 - r) + reflectedColor * r, which is reflectedColor itself
\* at r = 1 for a finite localColor; an invocation that hits with depth <= 0
\* or r <= 0 returns localColor itself.
C4_Blend ==
  [][/\ (call # <<>> /\ call' # <<>>) =>
          /\ call[1].depth > 0
          /\ NumGt(stack'[1].r, 0)
          /\ stack'[1].r = scene.spheres[hits'[Len(hits')][1]].reflective
          /\ stack'[1].localColor =
               shade(call[1].O, call[1].D, hits'[Len(hits')]).localColor
          /\ call'[1] =
               [O |-> shade(call[1].O, call[1].D, hits'[Len(hits')]).P,
                D |-> shade(call[1].O, call[1].D, hits'[Len(hits')]).R,
                tMin |-> Epsilon, tMax |-> Infinity,
                depth |-> call[1].depth - 1]
     /\ (call # <<>> /\ call' = <<>> /\ hits'[Len(hits')][1] # 0) =>
          /\ (call[1].depth <= 0
                \/ NumLe(scene.spheres[hits'[Len(hits')][1]].reflective, 0))
          /\ ret'[1].val =
               shade(call[1].O, call[1].D, hits'[Len(hits')]).localColor
     /\ (call = <<>> /\ stack # <<>> /\ ret # <<>>) =>
          /\ ret'[1].val = Affine(stack[1].localColor, stack[1].r, ret[1].val)
          /\ (stack[1].r = Num(1) /\ AllFinite(stack[1].localColor)) =>
               ret'[1].val = ret[1].val]_vars

\* a fully reflective sphere was hit with depth to spare, and the color
\* returned is the reflected one and not the local one
C4_Witness ==
  /\ pc = "trace"
  /\ Returned
  /\ calls >= 2
  /\ topSphere.reflective = Num(1)
  /\ ret[1].val # topShade.localColor
  /\ ret[1].val = traceRay(topShade.P, topShade.R, Epsilon, Infinity, top.depth - 1)

\* C6: in a scene whose only light is ambient with intensity I, a call that
\* hits a sphere with reflective 0 returns the sphere's color scaled by I;
\* with the red sphere of radius 1 at (0,0,5), the ray from the origin along
\* (0,0,1), tMin = 1, tMax = +Infinity and I = 1 the hit is at t = 4 and the
\* color is (255,0,0).
C6_AmbientOnly ==
  (/\ pc = "trace"
   /\ Returned
   /\ Len(scene.lights) = 1
   /\ scene.lights[1].type = "ambient"
   /\ hits[1][1] # 0
   /\ topSphere.reflective = 0) =>
     /\ ret[1].val = [k \in 1..3 |-> NumMul(scene.lights[1].intensity, topSphere.color[k])]
     /\ (/\ scene.spheres = <<Red(0)>>
         /\ scene.lights[1].intensity = Num(1)
         /\ top.O = V3(0, 0, 0)
         /\ top.D = V3(0, 0, 1)
         /\ top.tMin = Num(1)
         /\ top.tMax = Infinity) =>
           /\ hits[1] = <<1, Num(4)>>
           /\ ret[1].val = V3(255, 0, 0)

C6_Witness ==
  /\ pc = "trace"
  /\ Returned
  /\ scene = [spheres |-> <<Red(0)>>, lights |-> <<Ambient(Num(1))>>]
  /\ top.O = V3(0, 0, 0)
  /\ top.D = V3(0, 0, 1)
  /\ top.tMin = Num(1)
  /\ top.tMax = Infinity
  /\ hits = << <<1, Num(4)>> >>
  /\ ret[1].val = V3(255, 0, 0)


\* ------------------------------------------------------------------------
\* Properties of the helpers
\* ------------------------------------------------------------------------

\* the roots, paired with their sphere's index, that lie in (tMin, tMax)
RootsWithin ==
  { q \in { <<k, intersectRaySphere(args.O, args.D, scene.spheres[k])[j]>> :
              k \in 1..Len(scene.spheres), j \in 1..2 } :
      NumGt(q[2], args.tMin) /\ NumLt(q[2], args.tMax) }

\* r is the least of the roots in the set Q, of the earliest sphere having it
LeastOf(r, Q) ==
  /\ r \in Q
  /\ \A q \in Q : r[2] <= q[2] /\ (q[2] = r[2] => r[1] <= q[1])

\* C2: closestIntersection returns the smallest root t with tMin < t < tMax
\* over both roots of all spheres, together with the sphere it belongs to,
\* the earliest such sphere of the scene list when the smallest root is
\* shared, and (null, +Infinity) when no root lies in the interval.
C2_Closest ==
  (pc = "closestIntersection" /\ out # <<>>) =>
     [Q \in SUBSET (Int \X Int) |->
        IF Q = {} THEN out[1] = <<0, Infinity>> ELSE LeastOf(out[1], Q)]
       [RootsWithin]

\* two spheres share the smallest root and the first of them is returned
C2_Witness ==
  /\ pc = "closestIntersection"
  /\ out # <<>>
  /\ out[1][1] = 1
  /\ <<2, out[1][2]>> \in RootsWithin

\* C5: with a single ambient light of intensity I in the scene,
\* computeLighting returns I for every point, normal, view vector and
\* specular exponent, whatever spheres are present.
C5_Ambient ==
  (/\ pc = "computeLighting"
   /\ out # <<>>
   /\ Len(scene.lights) = 1
   /\ scene.lights[1].type = "ambient") =>
     out[1] = scene.lights[1].intensity

\* a sphere lies straight above the point, where a light would be shadowed
C5_Witness ==
  /\ pc = "computeLighting"
  /\ out # <<>>
  /\ scene.lights = <<Ambient(Lit(2, 10))>>
  /\ Len(scene.spheres) = 2
  /\ closestIntersection(args.P, args.N, Epsilon, Infinity)[1] # 0
  /\ args.s = Num(2)
  /\ out[1] = Lit(2, 10)

\* the coefficients of the quadratic for the ray and sphere in args
Qk1 == dot(args.D, args.D)

Qk2 == NumMul(Num(2), dot(sub(args.O, args.sphere.center), args.D))

Qk3 ==
  NumSub(dot(sub(args.O, args.sphere.center), sub(args.O, args.sphere.center)),
         NumMul(args.sphere.radius, args.sphere.radius))

Qdisc == NumSub(NumMul(Qk2, Qk2), NumMul(NumMul(Num(4), Qk1), Qk3))

\* k1 * t^2 + k2 * t + k3 and the axis -k2 / (2 * k1)
Residual(t) == NumAdd(NumAdd(NumMul(Qk1, NumMul(t, t)), NumMul(Qk2, t)), Qk3)

Axis == NumDiv(NumNeg(Qk2), NumMul(Num(2), Qk1))

QuadraticRoots ==
  << NumDiv(NumAdd(NumNeg(Qk2), NumSqrt(Qdisc)), NumMul(Num(2), Qk1)),
     NumDiv(NumSub(NumNeg(Qk2), NumSqrt(Qdisc)), NumMul(Num(2), Qk1)) >>

\* the ray is not degenerate and no value has overflowed
Regular ==
  /\ NumGt(Qk1, 0)
  /\ \A n \in {Qk1, Qk2, Qk3, Qdisc, NumMul(Qk2, Qk2), out[1][1], out[1][2],
               NumMul(out[1][1], out[1][1]), NumMul(out[1][2], out[1][2])} :
       IsFinite(n)

\* the square root, the divisions and the products of the residual are
\* all exact for root t
ExactFor(t) ==
  /\ NumSqrt(Qdisc) * NumSqrt(Qdisc) = Qdisc * Unit
  /\ (NumAdd(NumNeg(Qk2), NumSqrt(Qdisc)) * Unit) % (2 * Qk1) = 0
  /\ (NumSub(NumNeg(Qk2), NumSqrt(Qdisc)) * Unit) % (2 * Qk1) = 0
  /\ (Abs(Qk2) * Unit) % (2 * Qk1) = 0
  /\ (t * t) % Unit = 0
  /\ (Qk1 * NumMul(t, t)) % Unit = 0
  /\ (Abs(Qk2) * Abs(t)) % Unit = 0

\* C7 as stated: the roots are symmetric about -k2 / (2 * k1) and each one
\* satisfies k1 * t^2 + k2 * t + k3 = 0.
C7_ExactRoots ==
  (pc = "intersectRaySphere" /\ out # <<>>) =>
     IF NumLt(Qdisc, 0)
     THEN out[1] = <<Infinity, Infinity>>
     ELSE /\ out[1] = QuadraticRoots
          /\ NumSub(out[1][1], Axis) = NumSub(Axis, out[1][2])
          /\ Residual(out[1][1]) = 0
          /\ Residual(out[1][2]) = 0

\* C7: intersectRaySphere returns (+Infinity, +Infinity) when the
\* discriminant is negative and otherwise (-k2 + sqrt(disc)) / (2 * k1) and
\* (-k2 - sqrt(disc)) / (2 * k1) in this order; for a ray with k1 >= 1 and
\* without overflow the first is not below the second, the two are
\* symmetric about -k2 / (2 * k1) within 2 units in the last place and leave
\* a residual of at most k1 + sqrt(disc) + 2 units in the last place in the
\* quadratic; symmetry and residual are exact when no operation rounds.
C7_Roots ==
  (pc = "intersectRaySphere" /\ out # <<>>) =>
     IF NumLt(Qdisc, 0)
     THEN out[1] = <<Infinity, Infinity>>
     ELSE /\ out[1] = QuadraticRoots
          /\ (Regular /\ NumLe(Num(1), Qk1)) =>
               /\ out[1][1] >= out[1][2]
               /\ Abs(out[1][1] + out[1][2] - 2 * Axis) <= 2
               /\ \A k \in 1..2 :
                    /\ Abs(Residual(out[1][k])) * Unit
                         <= Qk1 + NumSqrt(Qdisc) + 2 * Unit
                    /\ ExactFor(out[1][k]) =>
                         /\ NumSub(out[1][1], Axis) = NumSub(Axis, out[1][2])
                         /\ Residual(out[1][k]) = 0

\* two distinct roots, one of them rounded and off the quadratic
C7_Witness ==
  /\ pc = "intersectRaySphere"
  /\ out # <<>>
  /\ NumGt(Qdisc, 0)
  /\ Regular
  /\ out[1][1] > out[1][2]
  /\ \E k \in 1..2 : ~ExactFor(out[1][k]) /\ Residual(out[1][k]) # 0

\* the direction to a light from P and the reach of the shadow ray
ToLight(light, P) ==
  IF light.type = "point" THEN sub(light.position, P) ELSE light.direction

Reach(light) == IF light.type = "point" THEN Num(1) ELSE Infinity

Shadowed(light, P) ==
  /\ light.type # "ambient"
  /\ closestIntersection(P, ToLight(light, P), Epsilon, Reach(light))[1] # 0

\* C10: a point or directional light for which some sphere intersects the
\* ray from P along L at a t in (0.001, tMax), tMax = 1 for a point light
\* and +Infinity for a directional one, adds nothing to the intensity:
\* computeLighting returns what it returns for the scene's other lights
\* alone.
C10_Shadow ==
  (pc = "computeLighting" /\ out # <<>>) =>
     out[1] = lightLoop(SelectSeq(scene.lights, LAMBDA l : ~Shadowed(l, args.P)),
                        args.P, args.N, args.V, args.s, 1, 0)

\* one light that faces the surface is shadowed, another one is not and
\* adds its diffuse term
C10_Witness ==
  /\ pc = "computeLighting"
  /\ out # <<>>
  /\ \E k \in 1..Len(scene.lights) :
       /\ Shadowed(scene.lights[k], args.P)
       /\ NumGt(dot(args.N, ToLight(scene.lights[k], args.P)), 0)
  /\ \E k \in 1..Len(scene.lights) :
       /\ scene.lights[k].type # "ambient"
       /\ ~Shadowed(scene.lights[k], args.P)
       /\ NumGt(dot(args.N, ToLight(scene.lights[k], args.P)), 0)


\* ------------------------------------------------------------------------
\* Properties of render
\* ------------------------------------------------------------------------

\* the putPixel calls made so far that wrote raster cell (cx, cy)
Writes(cx, cy) ==
  {k \in 1..Len(pixels) : pixels[k].cx = Num(cx) /\ pixels[k].cy = Num(cy)}

\* C8: when render has returned on a W x H raster every cell (cx, cy) with
\* 0 <= cx < W and 0 <= cy < H has been written exactly once, at
\* cx = W/2 + x and cy = H/2 - y - 1, with the color traceRay returns for
\* the camera position and the rotated viewport direction of (x, y), tMin = 1
\* and tMax = +Infinity.
C8_EveryCellOnce ==
  Rendered =>
    /\ \A cx \in 0..(canvas.width \div Unit - 1) :
         \A cy \in 0..(canvas.height \div Unit - 1) :
           Cardinality(Writes(cx, cy)) = 1
    /\ \A k \in 1..Len(pixels) :
         /\ pixels[k].cx = NumAdd(NumDiv(canvas.width, Num(2)), pixels[k].x)
         /\ pixels[k].cy =
              NumSub(NumSub(NumDiv(canvas.height, Num(2)), pixels[k].y), Num(1))
         /\ pixels[k].color =
              traceRay(camera.position,
                       mul(camera.rotation, canvasToViewport(pixels[k].x, pixels[k].y)),
                       Num(1), Infinity, DefaultDepth)

\* C9: no step of render, traceRay or the functions they call changes
\* scene, camera or backgroundColor, and the color a traceRay call hands to
\* putPixel is the function of its arguments and the scene alone, whatever
\* was traced before it.
C9_Immutable ==
  [][/\ scene' = scene
     /\ camera' = camera
     /\ backgroundColor' = backgroundColor
     /\ (pc = "trace" /\ pc' = "render") =>
          pixels'[Len(pixels')].color =
            traceRay(top.O, top.D, top.tMin, top.tMax, top.depth)]_vars

\* after other pixels were traced, a reflected ray has left the scene and
\* the background color array went through the blend
C9_Witness ==
  /\ pc = "trace"
  /\ Returned
  /\ Len(pixels) >= 1
  /\ calls >= 2
  /\ hits[calls][1] = 0
  /\ backgroundColor = V3(32, 64, 128)
  /\ ret[1].val # backgroundColor


Spec == SpecTrace
=============================================================================
